---------------------------- MODULE Spec2Model ----------------------------
(***************************************************************************)
(* A model of _qapp.py: the Promise / Task scheduling kernel that runs     *)
(* coroutines on Qt's event loop (call_soon, Promise, Task, resolve_all)   *)
(* and the message hooks that show a dialog through Application.           *)
(*                                                                         *)
(* Python objects are numbered: the plain Promise objects are              *)
(* 1..NPromises, the Task objects (which are Promises too) follow them.    *)
(* A callable is a record [kind, id]: a user callback or the bound method  *)
(* _wakeup of Task id.  An Optional value is a sequence of length 0 or 1,  *)
(* so Promise.__NO_RESULT is <<>> and a stored result v is <<v>>.          *)
(***************************************************************************)
EXTENDS Integers, Sequences, FiniteSets, TLC

\* ---------------------------------------------------------------- bounds
NPromises == 2
MaxTasks == 3
MaxVal == 2
MaxCallSoon == 1
MaxAppTasks == 1
NWorkers == 2
MaxNotes == 3
MaxSoon == 3

Promises == 1..NPromises
Tasks == (NPromises + 1)..(NPromises + MaxTasks)
Objs == Promises \cup Tasks
Val == 1..MaxVal
\* Threads: QappThread is the thread qapp was made on, which runs the event
\* loop; the others are Qt worker threads.
QappThread == "main"
Workers == { "w" \o ToString(i) : i \in 1..NWorkers }
Threads == {QappThread} \cup Workers

\* User callbacks: those of ThenCbs (registered with then) and of PlainCbs
\* return normally, the ones of RaisingCbs raise an ordinary exception and the
\* ones of StopCbs raise StopIteration.
ThenCbs == {1, 2}
RaisingCbs == {101}
StopCbs == {102}
PlainCbs == {103}
\* The continuation the application registers on object o in the Task runs.
ContOf(o) == 10 + o
SoonCbs == PlainCbs \cup RaisingCbs \cup StopCbs
\* The callback passed to the k-th call_soon call of a run, made on thread th:
\* its number tells the thread (0 for qapp's, i for worker i) and k.  These
\* callbacks return normally.
ThreadNo(th) == IF th = QappThread THEN 0
                ELSE CHOOSE i \in 1..NWorkers : th = "w" \o ToString(i)
SoonCb(th, k) == 200 + 10 * ThreadNo(th) + k
SoonIds == { SoonCb(th, k) : th \in Threads, k \in 1..MaxSoon }
SoonSerial(f) == (f - 200) % 10
SoonFromQapp(f) == f \in { SoonCb(QappThread, k) : k \in 1..MaxSoon }

None == [kind |-> "none", id |-> 0]
Cb(f) == [kind |-> "cb", id |-> f]
WakeupOf(t) == [kind |-> "wakeup", id |-> t]

NO_RESULT == << >>
Some(v) == << v >>
IsSet(r) == Len(r) > 0

VARIABLES
  then_fn,    \* Promise._then_fn of every object
  result,     \* Promise._result of every object
  coro,       \* Task._coro: the coroutine object of every Task
  queue,      \* qapp's posted events, oldest first
  calls,      \* history: the invocations of user callbacks
  steps,      \* history: per Task, the caller of each of its _wakeup steps
  nres,       \* history: per object, the number of times _result was assigned
  raised,     \* the exception the last operation ended with ("none" if it returned)
  last,       \* history: the last operation and its arguments
  nsoon,      \* number of call_soon calls the application made itself
  ntask,      \* number of Tasks the application created itself
  \* ---- the message hooks and Application
  alive,      \* qapp is still an object (not None)
  interactive,\* qapp._interactive_msg
  loop,       \* "init" | "running" | "stopped": before, in and after qapp.exec_()
  tstate,     \* per thread: "running" | "blocked" (parked in invokeMethod)
  handlers,   \* stack of _show_message calls in progress, innermost last
  stderr,     \* number of writes to sys.stderr
  shown,      \* history: per thread, number of its notifications a handler finished
  posted,     \* history: per thread, number of its notifications handed to invokeMethod
  exited,     \* the process exit status, or "no"
  race        \* two threads inside then() and resolve() of one Promise: where each is

kvars == << then_fn, result, coro, queue, calls, steps, nres, raised, last, nsoon, ntask >>
nvars == << alive, interactive, loop, tstate, handlers, stderr, shown, posted, exited >>
vars == << then_fn, result, coro, queue, calls, steps, nres, raised, last, nsoon, ntask,
           alive, interactive, loop, tstate, handlers, stderr, shown, posted, exited,
           race >>

\* ------------------------------------------------------------ coroutines
\* A coroutine body is a sequence of instructions.
IAwait(p) == [op |-> "await", a |-> p, prog |-> << >>]
IReturnConst(v) == [op |-> "return_const", a |-> v, prog |-> << >>]
IReturnSum == [op |-> "return_sum", a |-> 0, prog |-> << >>]
IRaise == [op |-> "raise", a |-> 0, prog |-> << >>]
IYieldOther == [op |-> "yield_other", a |-> 0, prog |-> << >>]
\* the three instructions resolve_all is made of
IKeep(p) == [op |-> "keep", a |-> p, prog |-> << >>]
ICreateTask(P) == [op |-> "create_task", a |-> 0, prog |-> P]
IAwaitA1(i) == [op |-> "await_a1", a |-> i, prog |-> << >>]
IReturnR == [op |-> "return_r", a |-> 0, prog |-> << >>]

NoCoro == [st |-> "none", prog |-> << >>, pc |-> 0, A1 |-> << >>, R |-> << >>,
           awaiting |-> 0]
NewCoro(P) == [st |-> "created", prog |-> P, pc |-> 1, A1 |-> << >>, R |-> << >>,
               awaiting |-> 0]

RECURSIVE SumSeq(_)
SumSeq(s) == IF s = << >> THEN 0 ELSE s[1] + SumSeq(Tail(s))

\* An item of resolve_all's argument: a Promise, or a coroutine (its body).
ItemPromise(p) == [isPromise |-> TRUE, p |-> p, prog |-> << >>]
ItemCoro(P) == [isPromise |-> FALSE, p |-> 0, prog |-> P]

\* Faulty variants of resolve_all: each item is wrapped only when its turn to
\* be awaited has come; the items are awaited last to first.
ResolveAllProgLazy(A) ==
  [k \in 1..(2 * Len(A)) |->
     LET i == (k + 1) \div 2 IN
     IF k % 2 = 0 THEN IAwaitA1(i)
     ELSE IF A[i].isPromise THEN IKeep(A[i].p) ELSE ICreateTask(A[i].prog)]
    \o << IReturnR >>

ResolveAllProgReversed(A) ==
  [i \in 1..Len(A) |-> IF A[i].isPromise THEN IKeep(A[i].p) ELSE ICreateTask(A[i].prog)]
    \o [i \in 1..Len(A) |-> IAwaitA1(Len(A) + 1 - i)] \o << IReturnR >>

\* resolve_all(A): A1 is built first, then its items are awaited in order.
ResolveAllProg(A) ==
  [i \in 1..Len(A) |-> IF A[i].isPromise THEN IKeep(A[i].p) ELSE ICreateTask(A[i].prog)]
    \o [i \in 1..Len(A) |-> IAwaitA1(i)] \o << IReturnR >>

\* ------------------------------------------------- the interpreter state
\* The operators below take and return the Python heap S: the program's
\* variables plus the call stack, the pending exception and the outcome of
\* the last coroutine.send().
Frame(op, p, imm) == [op |-> op, p |-> p, imm |-> imm]
Push(S, fr) == [S EXCEPT !.stack = Append(@, fr)]
Pop(S) == [S EXCEPT !.stack = SubSeq(@, 1, Len(@) - 1)]
Top(S) == S.stack[Len(S.stack)]
Raise(S, e) == [S EXCEPT !.exc = e]
NoRet == [out |-> "none", isPromise |-> FALSE, v |-> 0]

FreeTask(S) ==
  CHOOSE t \in Tasks : /\ S.coro[t].st = "none"
                       /\ \A u \in Tasks : u < t => S.coro[u].st # "none"

\* Faulty variants of call_soon: the signal is connected directly, so that
\* _invoke_function runs the call at once on the emitting thread; the call is
\* put in front of the queued ones.
CallSoonDirect(S, th, fn, args) ==
  [S EXCEPT !.calls = Append(@, [f |-> fn.id, args |-> args,
                                 caller |-> Frame("_invoke_function", 0, FALSE),
                                 thread |-> th])]

CallSoonPrepends(S, th, fn, args) ==
  [S EXCEPT !.queue = << [kind |-> "call", fn |-> fn, args |-> args, from |-> th] >> \o @]

\* call_soon(fn, *args): qapp.sig_call_soon.emit(fn, args), a queued connection.
CallSoon(S, th, fn, args) ==
  [S EXCEPT !.queue = Append(@, [kind |-> "call", fn |-> fn, args |-> args, from |-> th])]

\* A user callback runs: the history records who called it and on which thread.
UserCallback(S, th, f, args) ==
  LET S1 == [S EXCEPT !.calls = Append(@, [f |-> f, args |-> args,
                                            caller |-> Top(S), thread |-> th])]
  IN IF f \in RaisingCbs THEN Raise(S1, "Fault")
     ELSE IF f \in StopCbs THEN Raise(S1, "StopIteration")
     ELSE S1

RECURSIVE Call(_, _, _, _)
RECURSIVE PromiseThen(_, _, _, _, _)
RECURSIVE PromiseResolve(_, _, _, _, _)
RECURSIVE Wakeup(_, _, _)
RECURSIVE Run(_, _, _)
RECURSIVE TaskInit(_, _, _, _, _)

\* Faulty variants of Promise.then: without its assertion; forgetting a Promise that
\* is already resolved; ignoring call_then_immediately.
PromiseThenUnchecked(S, th, p, fn, imm) ==
  LET S1 == [S EXCEPT !.then_fn[p] = fn] IN
  IF IsSet(S1.result[p])
  THEN IF imm
       THEN Pop(Call(Push(S1, Frame("then", p, imm)), th, S1.then_fn[p], S1.result[p]))
       ELSE CallSoon(S1, th, S1.then_fn[p], S1.result[p])
  ELSE S1

PromiseThenStoresOnly(S, th, p, fn, imm) ==
  IF S.then_fn[p] # None THEN Raise(S, "AssertionError")
  ELSE [S EXCEPT !.then_fn[p] = fn]

PromiseThenInline(S, th, p, fn, imm) ==
  IF S.then_fn[p] # None THEN Raise(S, "AssertionError")
  ELSE LET S1 == [S EXCEPT !.then_fn[p] = fn] IN
       IF IsSet(S1.result[p])
       THEN Pop(Call(Push(S1, Frame("then", p, imm)), th, S1.then_fn[p], S1.result[p]))
       ELSE S1

\* Promise.then
PromiseThen(S, th, p, fn, imm) ==
  IF S.then_fn[p] # None THEN Raise(S, "AssertionError")
  ELSE LET S1 == [S EXCEPT !.then_fn[p] = fn] IN
       IF IsSet(S1.result[p])
       THEN IF imm
            THEN Pop(Call(Push(S1, Frame("then", p, imm)), th, S1.then_fn[p], S1.result[p]))
            ELSE CallSoon(S1, th, S1.then_fn[p], S1.result[p])
       ELSE S1

\* Faulty variants of Promise.resolve: without its assertion; always inline;
\* storing the result without looking at _then_fn.
PromiseResolveStoresOnly(S, th, p, v, imm) ==
  IF IsSet(S.result[p]) THEN Raise(S, "AssertionError")
  ELSE [S EXCEPT !.result[p] = Some(v), !.nres[p] = @ + 1]

PromiseResolveUnchecked(S, th, p, v, imm) ==
  LET S1 == [S EXCEPT !.result[p] = Some(v), !.nres[p] = @ + 1] IN
  IF S1.then_fn[p] # None
  THEN IF imm
       THEN Pop(Call(Push(S1, Frame("resolve", p, imm)), th, S1.then_fn[p], Some(v)))
       ELSE CallSoon(S1, th, S1.then_fn[p], Some(v))
  ELSE S1

PromiseResolveInline(S, th, p, v, imm) ==
  IF IsSet(S.result[p]) THEN Raise(S, "AssertionError")
  ELSE LET S1 == [S EXCEPT !.result[p] = Some(v), !.nres[p] = @ + 1] IN
       IF S1.then_fn[p] # None
       THEN Pop(Call(Push(S1, Frame("resolve", p, imm)), th, S1.then_fn[p], Some(v)))
       ELSE S1

\* Promise.resolve
PromiseResolve(S, th, p, v, imm) ==
  IF IsSet(S.result[p]) THEN Raise(S, "AssertionError")
  ELSE LET S1 == [S EXCEPT !.result[p] = Some(v), !.nres[p] = @ + 1] IN
       IF S1.then_fn[p] # None
       THEN IF imm
            THEN Pop(Call(Push(S1, Frame("resolve", p, imm)), th, S1.then_fn[p], Some(v)))
            ELSE CallSoon(S1, th, S1.then_fn[p], Some(v))
       ELSE S1

\* The coroutine stops at a yield of object p (Promise.__await__ yields self).
Suspend(S, t, p) ==
  [S EXCEPT !.coro[t].st = "suspended", !.coro[t].awaiting = p,
            !.ret = [out |-> "yield", isPromise |-> TRUE, v |-> p]]

\* The coroutine returns v: send() raises StopIteration(v).  ("returned" and
\* "raised" are both Python's closed coroutine.)
Finish(S, t, v) ==
  [S EXCEPT !.coro[t].st = "returned", !.ret = [out |-> "return", isPromise |-> FALSE, v |-> v]]

\* The coroutine body runs from its program counter to its next yield,
\* return or raise.  keep/create_task are resolve_all's list comprehension.
Run(S, th, t) ==
  LET c == S.coro[t]
      ins == c.prog[c.pc]
  IN CASE ins.op = "await" -> Suspend(S, t, ins.a)
       [] ins.op = "await_a1" -> Suspend(S, t, c.A1[ins.a])
       [] ins.op = "yield_other" ->
            [S EXCEPT !.coro[t].st = "suspended", !.coro[t].awaiting = 0,
                      !.ret = [out |-> "yield", isPromise |-> FALSE, v |-> 0]]
       [] ins.op = "return_const" -> Finish(S, t, ins.a)
       [] ins.op = "return_sum" -> Finish(S, t, SumSeq(c.R))
       [] ins.op = "return_r" -> Finish(S, t, c.R)
       [] ins.op = "raise" ->
            [S EXCEPT !.coro[t].st = "raised",
                      !.ret = [out |-> "raise", isPromise |-> FALSE, v |-> "Fault"]]
       [] ins.op = "keep" ->
            Run([S EXCEPT !.coro[t].A1 = Append(@, ins.a), !.coro[t].pc = @ + 1], th, t)
       [] ins.op = "create_task" ->
            LET n == FreeTask(S)
                S1 == TaskInit(S, th, n, ins.prog, FALSE)
            IN Run([S1 EXCEPT !.coro[t].A1 = Append(@, n), !.coro[t].pc = @ + 1], th, t)

\* Faulty variant of Promise.__await__: the value of the await expression is
\* what was sent in (None) instead of _result.
SendYieldsSentValue(S, th, t) ==
  LET c == S.coro[t] IN
  IF c.st \in {"returned", "raised"}
  THEN [S EXCEPT !.ret = [out |-> "raise", isPromise |-> FALSE, v |-> "RuntimeError"]]
  ELSE IF c.st = "created" THEN Run(S, th, t)
  ELSE IF c.awaiting = 0
       THEN Run([S EXCEPT !.coro[t].pc = @ + 1], th, t)
       ELSE Run([S EXCEPT !.coro[t].R = Append(@, 0), !.coro[t].pc = @ + 1], th, t)

\* coroutine.send(None).  A coroutine suspended in Promise.__await__ resumes
\* after the yield: it asserts the Promise has a result and returns it.
Send(S, th, t) ==
  LET c == S.coro[t] IN
  IF c.st \in {"returned", "raised"}
  THEN [S EXCEPT !.ret = [out |-> "raise", isPromise |-> FALSE, v |-> "RuntimeError"]]
  ELSE IF c.st = "created" THEN Run(S, th, t)
  ELSE IF c.awaiting = 0
       THEN Run([S EXCEPT !.coro[t].pc = @ + 1], th, t)
       ELSE IF ~IsSet(S.result[c.awaiting])
            THEN [S EXCEPT !.coro[t].st = "raised",
                           !.ret = [out |-> "raise", isPromise |-> FALSE,
                                    v |-> "AssertionError"]]
            ELSE Run([S EXCEPT !.coro[t].R = Append(@, S.result[c.awaiting][1]),
                               !.coro[t].pc = @ + 1], th, t)

\* Faulty variants of Task._wakeup: the return value is dropped (resolve(None));
\* every exception of the coroutine is taken for its completion.
WakeupDropsValue(S, th, t) ==
  LET S0 == Push([S EXCEPT !.steps[t] = Append(@, [caller |-> Top(S).op, thread |-> th])],
                 Frame("_wakeup", t, FALSE))
      S1 == Send(S0, th, t)
      S2 == CASE S1.ret.out = "return" -> PromiseResolve(S1, th, t, 0, FALSE)
              [] S1.ret.out = "yield" ->
                   IF S1.ret.isPromise
                   THEN PromiseThen(S1, th, S1.ret.v, WakeupOf(t), FALSE)
                   ELSE Raise(S1, "AssertionError")
              [] S1.ret.out = "raise" -> Raise(S1, S1.ret.v)
  IN Pop([S2 EXCEPT !.ret = NoRet])

WakeupCatchesAll(S, th, t) ==
  LET S0 == Push([S EXCEPT !.steps[t] = Append(@, [caller |-> Top(S).op, thread |-> th])],
                 Frame("_wakeup", t, FALSE))
      S1 == Send(S0, th, t)
      S2 == CASE S1.ret.out = "return" -> PromiseResolve(S1, th, t, S1.ret.v, FALSE)
              [] S1.ret.out = "yield" ->
                   IF S1.ret.isPromise
                   THEN PromiseThen(S1, th, S1.ret.v, WakeupOf(t), FALSE)
                   ELSE Raise(S1, "AssertionError")
              [] S1.ret.out = "raise" -> PromiseResolve(S1, th, t, 0, FALSE)
  IN Pop([S2 EXCEPT !.ret = NoRet])

\* Task._wakeup
Wakeup(S, th, t) ==
  LET S0 == Push([S EXCEPT !.steps[t] = Append(@, [caller |-> Top(S).op, thread |-> th])],
                 Frame("_wakeup", t, FALSE))
      S1 == Send(S0, th, t)
      S2 == CASE S1.ret.out = "return" -> PromiseResolve(S1, th, t, S1.ret.v, FALSE)
              [] S1.ret.out = "yield" ->
                   IF S1.ret.isPromise
                   THEN PromiseThen(S1, th, S1.ret.v, WakeupOf(t), FALSE)
                   ELSE Raise(S1, "AssertionError")
              [] S1.ret.out = "raise" -> Raise(S1, S1.ret.v)
  IN Pop([S2 EXCEPT !.ret = NoRet])

\* Faulty variant of Task.__init__: the first step is queued also when it has
\* been run at once.
TaskInitAlsoQueues(S, th, t, P, start_immediately) ==
  LET S1 == [S EXCEPT !.then_fn[t] = None, !.result[t] = NO_RESULT,
                      !.coro[t] = NewCoro(P)]
      S2 == IF start_immediately
            THEN Pop(Wakeup(Push(S1, Frame("__init__", t, FALSE)), th, t))
            ELSE S1
  IN CallSoon(S2, th, WakeupOf(t), << >>)

\* Task.__init__ (Promise.__init__ without func, then the first step)
TaskInit(S, th, t, P, start_immediately) ==
  LET S1 == [S EXCEPT !.then_fn[t] = None, !.result[t] = NO_RESULT,
                      !.coro[t] = NewCoro(P)]
  IN IF start_immediately
     THEN Pop(Wakeup(Push(S1, Frame("__init__", t, FALSE)), th, t))
     ELSE CallSoon(S1, th, WakeupOf(t), << >>)

\* Calling a Python callable.
Call(S, th, fn, args) ==
  IF fn.kind = "wakeup" THEN Wakeup(S, th, fn.id)
  ELSE UserCallback(S, th, fn.id, args)

\* Application._invoke_function
InvokeFunction(S, fn, args) ==
  LET S1 == Pop(Call(Push(S, Frame("_invoke_function", 0, FALSE)), QappThread, fn, args))
  IN IF S1.exc = "StopIteration" THEN Raise(S1, "none") ELSE S1


\* ------------------------------------------------------ the message hooks
\* The part of the state _show_info_msg_box reads and writes.
Bridge(q) ==
  [alive |-> alive, interactive |-> interactive, tstate |-> tstate,
   handlers |-> handlers, stderr |-> stderr, posted |-> posted, queue |-> q,
   exc |-> "none"]

CommitN(N) ==
  /\ tstate' = N.tstate
  /\ handlers' = N.handlers
  /\ stderr' = N.stderr
  /\ posted' = N.posted

\* Faulty variants of the choice of connection type.
ConnectionTypeAlwaysDirect(th) == "Direct"
ConnectionTypeAlwaysBlocking(th) == "BlockingQueued"

\* ct, by QThread.currentThread() == qapp.thread()
ConnectionType(th) ==
  IF th = QappThread THEN "Direct" ELSE "BlockingQueued"

\* QMetaObject.invokeMethod(qapp, '_show_message', ct, ...): a direct call
\* enters the slot on the calling thread; a blocking queued one posts the call
\* to qapp's thread and parks the caller until the slot has returned.
InvokeMethod(N, th, ct) ==
  IF ct = "Direct"
  THEN [N EXCEPT !.handlers = Append(@, [for |-> th, on |-> th, conn |-> ct]),
                 !.posted[th] = @ + 1]
  ELSE [N EXCEPT !.queue = Append(@, [kind |-> "msg", fn |-> None, args |-> << >>,
                                      from |-> th]),
                 !.tstate[th] = "blocked",
                 !.posted[th] = @ + 1]

\* Faulty variants of _show_info_msg_box: _interactive_msg is read without
\* testing qapp first, an AttributeError when qapp is None; _interactive_msg is
\* not looked at.
ShowInfoMsgBoxUnguarded(N, th) ==
  LET N1 == [N EXCEPT !.stderr = @ + 1] IN
  IF ~N1.alive THEN [N1 EXCEPT !.exc = "AttributeError"]
  ELSE IF N1.interactive THEN InvokeMethod(N1, th, ConnectionType(th))
  ELSE N1

ShowInfoMsgBoxAlways(N, th) ==
  LET N1 == [N EXCEPT !.stderr = @ + 1] IN
  IF N1.alive THEN InvokeMethod(N1, th, ConnectionType(th)) ELSE N1

\* install_message_hooks._show_info_msg_box, called on thread th
ShowInfoMsgBox(N, th) ==
  LET N1 == [N EXCEPT !.stderr = @ + 1] IN
  IF N1.alive /\ N1.interactive
  THEN InvokeMethod(N1, th, ConnectionType(th))
  ELSE N1

\* install_message_hooks._py_exc_hook
PyExcHook(N, th) == ShowInfoMsgBox(N, th)

\* install_message_hooks._qt_msg_hook; setGeometry says the message is the
\* warning QT5_WINDOWS_IGNORE_SETGEOMETRY_WARNING silences.
QtMsgHook(N, th, setGeometry) ==
  IF setGeometry THEN [N EXCEPT !.stderr = @ + 1] ELSE ShowInfoMsgBox(N, th)

MainRuns == exited = "no" /\ tstate[QappThread] = "running"
LoopRuns == MainRuns /\ loop = "running"

\* ------------------------------------------------------ the application
\* Coroutine bodies the application hands to Task().
UserProgs ==
  { << IReturnConst(v) >> : v \in Val }
    \cup { << IAwait(p), IReturnSum >> : p \in Promises }
    \cup { << IAwait(1), IAwait(NPromises), IReturnSum >>,
           << IRaise >>, << IAwait(1), IRaise >>,
           << IYieldOther, IReturnConst(1) >> }

\* Arguments the application passes to resolve_all.
Batches ==
  { << ItemCoro(<< IReturnConst(MaxVal) >>), ItemPromise(1) >>,
    << ItemPromise(NPromises), ItemCoro(<< IAwait(1), IReturnSum >>) >> }

AppProgs == UserProgs \cup { ResolveAllProg(A) : A \in Batches }

Allocated(o) == IF o \in Promises THEN TRUE ELSE coro[o].st # "none"

NCreates(P) == Cardinality({ i \in 1..Len(P) : P[i].op = "create_task" })
\* Task objects that exist or that a resolve_all not yet started will create.
TasksInUse ==
  Cardinality({ t \in Tasks : coro[t].st # "none" })
    + SumSeq([i \in 1..MaxTasks |->
                LET t == NPromises + i IN
                IF coro[t].st = "created" THEN NCreates(coro[t].prog) ELSE 0])

Heap(fr) ==
  [then_fn |-> then_fn, result |-> result, coro |-> coro, queue |-> queue,
   calls |-> calls, steps |-> steps, nres |-> nres, exc |-> "none", stack |-> << fr >>, ret |-> NoRet]

Op(op, p, imm) == [op |-> op, p |-> p, imm |-> imm, th |-> QappThread]
OpOn(op, th) == [op |-> op, p |-> 0, imm |-> FALSE, th |-> th]

Commit(S, o) ==
  /\ then_fn' = S.then_fn
  /\ result' = S.result
  /\ coro' = S.coro
  /\ queue' = S.queue
  /\ calls' = S.calls
  /\ steps' = S.steps
  /\ nres' = S.nres
  /\ raised' = S.exc
  /\ last' = o

\* No thread is inside a method of a Promise.
NoRace == [tpc |-> "done", tth |-> QappThread, timm |-> FALSE,
           rpc |-> "done", rth |-> QappThread, rimm |-> FALSE, rv |-> 0]

InitK ==
  /\ then_fn = [o \in Objs |-> None]
  /\ result = [o \in Objs |-> NO_RESULT]
  /\ coro = [t \in Tasks |-> NoCoro]
  /\ queue = << >>
  /\ calls = << >>
  /\ steps = [t \in Tasks |-> << >>]
  /\ nres = [o \in Objs |-> 0]
  /\ raised = "none"
  /\ last = Op("init", 0, FALSE)
  /\ nsoon = 0
  /\ ntask = 0
  /\ race = NoRace

\* The message hooks are installed and exec_(main_win, interactive_msg=False)
\* has started the event loop.
InitN ==
  /\ alive = TRUE
  /\ interactive = FALSE
  /\ loop = "running"
  /\ tstate = [th \in Threads |-> "running"]
  /\ handlers = << >>
  /\ stderr = 0
  /\ shown = [th \in Threads |-> 0]
  /\ posted = [th \in Threads |-> 0]
  /\ exited = "no"

Init == InitK /\ InitN

\* Code running on the loop-owning thread calls p.then(f, imm).
AppThen(p, f, imm) ==
  /\ MainRuns
  /\ Allocated(p)
  /\ Commit(PromiseThen(Heap(Frame("app", 0, FALSE)), QappThread, p, Cb(f), imm),
            Op("then", p, imm))
  /\ UNCHANGED << race, nsoon, ntask, nvars >>

\* Code running on the loop-owning thread calls p.resolve(v, imm) on a Promise
\* it owns (a Task's Promise is resolved by the Task).
AppResolve(p, v, imm) ==
  /\ MainRuns
  /\ Commit(PromiseResolve(Heap(Frame("app", 0, FALSE)), QappThread, p, v, imm),
            Op("resolve", p, imm))
  /\ UNCHANGED << race, nsoon, ntask, nvars >>

\* create_task(coro, start_immediately)
AppCreateTask(P, start_immediately) ==
  /\ MainRuns
  /\ ntask < MaxAppTasks
  /\ ntask' = ntask + 1
  /\ TasksInUse + 1 + NCreates(P) <= MaxTasks
  /\ LET S == Heap(Frame("app", 0, FALSE)) IN
     Commit(TaskInit(S, QappThread, FreeTask(S), P, start_immediately),
            Op("create_task", FreeTask(S), start_immediately))
  /\ UNCHANGED << race, nsoon, nvars >>

\* call_soon(f) from application code
AppCallSoon(f) ==
  /\ MainRuns /\ alive
  /\ nsoon < MaxCallSoon
  /\ nsoon' = nsoon + 1
  /\ Commit(CallSoon(Heap(Frame("app", 0, FALSE)), QappThread, Cb(f), << >>),
            Op("call_soon", f, FALSE))
  /\ UNCHANGED << race, ntask, nvars >>

\* The event loop delivers the oldest queued call to _invoke_function; an
\* exception that leaves the slot goes to sys.excepthook.
Dispatch ==
  /\ LoopRuns
  /\ queue # << >>
  /\ Head(queue).kind = "call"
  /\ LET e == Head(queue)
         S == InvokeFunction([Heap(Frame("loop", 0, FALSE)) EXCEPT !.queue = Tail(queue)],
                             e.fn, e.args)
         N == IF S.exc = "none" THEN Bridge(S.queue)
              ELSE PyExcHook(Bridge(S.queue), QappThread)
     IN /\ Commit([S EXCEPT !.queue = N.queue], Op("dispatch", e.fn.id, FALSE))
        /\ CommitN(N)
  /\ UNCHANGED << race, nsoon, ntask, alive, interactive, loop, shown, exited >>

\* The arguments tried on Promise p.  A call that is rejected looks at neither
\* the callback nor the value, so one of each stands for all of them there.
ThenArgs(p) == IF then_fn[p] = None THEN ThenCbs ELSE {1}
ResolveArgs(p) == IF IsSet(result[p]) THEN {1} ELSE Val

\* The Promise on its own: then, resolve and the event loop.
Next ==
  \/ \E p \in Promises, imm \in BOOLEAN : \E f \in ThenArgs(p) : AppThen(p, f, imm)
  \/ \E p \in Promises, imm \in BOOLEAN : \E v \in ResolveArgs(p) : AppResolve(p, v, imm)
  \/ Dispatch

Spec == Init /\ [][Next]_vars

\* Tasks: the application creates a Task, resolves the Promises its coroutine
\* awaits and registers continuations; the event loop runs the queued steps.
NextTask ==
  \/ \E P \in AppProgs, s \in BOOLEAN : AppCreateTask(P, s)
  \/ \E p \in Objs, imm \in BOOLEAN : AppThen(p, ContOf(p), imm)
  \/ \E p \in Promises, imm \in BOOLEAN : \E v \in ResolveArgs(p) : AppResolve(p, v, imm)
  \/ Dispatch

SpecTask == Init /\ [][NextTask]_vars

\* call_soon(f) on any thread, with a callback of its own.
CallSoonOn(th) ==
  /\ exited = "no"
  /\ tstate[th] = "running"
  /\ alive
  /\ nsoon < MaxSoon
  /\ nsoon' = nsoon + 1
  /\ Commit(CallSoon(Heap(Frame("app", 0, FALSE)), th, Cb(SoonCb(th, nsoon + 1)), << >>),
            [op |-> "call_soon", p |-> SoonCb(th, nsoon + 1), imm |-> FALSE, th |-> th])
  /\ UNCHANGED << race, ntask, nvars >>

\* The callback queue: call_soon from qapp's thread and from worker threads
\* (the first call may pass a callback that raises), and the event loop,
\* which goes on delivering the queued calls.
NextSoon ==
  \/ \E th \in Threads : CallSoonOn(th)
  \/ \E f \in RaisingCbs \cup StopCbs : AppCallSoon(f)
  \/ Dispatch

SpecSoon == Init /\ [][NextSoon]_vars /\ WF_vars(Dispatch)

\* resolve_all on lists with several coroutines, the first of which waits for
\* a Promise.
OrderBatches ==
  { << ItemCoro(<< IAwait(1), IReturnSum >>), ItemCoro(<< IReturnConst(MaxVal) >>) >>,
    << ItemCoro(<< IAwait(NPromises), IReturnSum >>), ItemPromise(1),
       ItemCoro(<< IReturnConst(1) >>) >> }

NextBatch ==
  \/ \E A \in OrderBatches, s \in BOOLEAN : AppCreateTask(ResolveAllProg(A), s)
  \/ \E p \in Objs, imm \in BOOLEAN : AppThen(p, ContOf(p), imm)
  \/ \E p \in Promises, imm \in BOOLEAN : \E v \in ResolveArgs(p) : AppResolve(p, v, imm)
  \/ Dispatch

SpecBatch == Init /\ [][NextBatch]_vars

\* Tasks under an event loop that goes on delivering the queued calls.
LiveProgs ==
  { << IAwait(1), IAwait(NPromises), IReturnSum >>,
    << IAwait(1), IRaise >>,
    << IYieldOther, IReturnConst(1) >>,
    ResolveAllProg(<< ItemPromise(NPromises), ItemCoro(<< IAwait(1), IReturnSum >>) >>) }

NextLive ==
  \/ \E P \in LiveProgs, s \in BOOLEAN : AppCreateTask(P, s)
  \/ \E p \in Objs : AppThen(p, ContOf(p), FALSE)
  \/ \E p \in Promises, imm \in BOOLEAN : \E v \in ResolveArgs(p) : AppResolve(p, v, imm)
  \/ Dispatch

\* Weak fairness of Dispatch, WF_vars(Dispatch), with ENABLED <<Dispatch>>_vars
\* written out: the event loop does not leave a deliverable call in the queue
\* for ever.
DispatchEnabled == LoopRuns /\ queue # << >> /\ Head(queue).kind = "call"
DispatchFairness == []<>(~DispatchEnabled) \/ []<><<Dispatch>>_vars

SpecLive == Init /\ [][NextLive]_vars /\ DispatchFairness

\* ------------------------------------------ then() and resolve() in threads
\* Two threads call then(f, timm) and resolve(rv, rimm) on the same Promise
\* with no synchronization: each method goes on one statement at a time, and
\* the statements of the two interleave in any order.
RacePromise == NPromises

RaceOp(op, th, imm) == [op |-> op, p |-> RacePromise, imm |-> imm, th |-> th]

RaceBegin(tth, rth, timm, rimm, v) ==
  /\ race = NoRace
  /\ last.op = "init"
  /\ tth # rth
  /\ race' = [tpc |-> "assert", tth |-> tth, timm |-> timm,
              rpc |-> "assert", rth |-> rth, rimm |-> rimm, rv |-> v]
  /\ last' = RaceOp("begin", tth, FALSE)
  /\ UNCHANGED << then_fn, result, coro, queue, calls, steps, nres, raised, nsoon, ntask,
                  nvars >>

\* then: assert self._then_fn is None
ThenAssert ==
  /\ race.tpc = "assert"
  /\ race' = [race EXCEPT !.tpc = IF then_fn[RacePromise] = None THEN "store" ELSE "done"]
  /\ raised' = IF then_fn[RacePromise] = None THEN "none" ELSE "AssertionError"
  /\ last' = RaceOp("then", race.tth, race.timm)
  /\ UNCHANGED << then_fn, result, coro, queue, calls, steps, nres, nsoon, ntask, nvars >>

\* then: self._then_fn = then_fn
ThenStore ==
  /\ race.tpc = "store"
  /\ race' = [race EXCEPT !.tpc = "test"]
  /\ then_fn' = [then_fn EXCEPT ![RacePromise] = Cb(1)]
  /\ last' = RaceOp("then", race.tth, race.timm)
  /\ UNCHANGED << result, coro, queue, calls, steps, nres, raised, nsoon, ntask, nvars >>

\* then: if self._result is not Promise.__NO_RESULT
ThenTest ==
  /\ race.tpc = "test"
  /\ race' = [race EXCEPT !.tpc = IF IsSet(result[RacePromise]) THEN "fire" ELSE "done"]
  /\ last' = RaceOp("then", race.tth, race.timm)
  /\ UNCHANGED << then_fn, result, coro, queue, calls, steps, nres, raised, nsoon, ntask,
                  nvars >>

\* then: self._then_fn(self._result) or call_soon(self._then_fn, self._result)
ThenFire ==
  /\ race.tpc = "fire"
  /\ race' = [race EXCEPT !.tpc = "done"]
  /\ LET S == Heap(Frame("app", 0, FALSE))
         p == RacePromise
     IN Commit(IF race.timm
               THEN Pop(Call(Push(S, Frame("then", p, TRUE)), race.tth, S.then_fn[p],
                             S.result[p]))
               ELSE CallSoon(S, race.tth, S.then_fn[p], S.result[p]),
               RaceOp("then", race.tth, race.timm))
  /\ UNCHANGED << nsoon, ntask, nvars >>

\* resolve: assert self._result is Promise.__NO_RESULT
ResolveAssert ==
  /\ race.rpc = "assert"
  /\ race' = [race EXCEPT !.rpc = IF IsSet(result[RacePromise]) THEN "done" ELSE "store"]
  /\ raised' = IF IsSet(result[RacePromise]) THEN "AssertionError" ELSE "none"
  /\ last' = RaceOp("resolve", race.rth, race.rimm)
  /\ UNCHANGED << then_fn, result, coro, queue, calls, steps, nres, nsoon, ntask, nvars >>

\* resolve: self._result = result
ResolveStore ==
  /\ race.rpc = "store"
  /\ race' = [race EXCEPT !.rpc = "test"]
  /\ result' = [result EXCEPT ![RacePromise] = Some(race.rv)]
  /\ nres' = [nres EXCEPT ![RacePromise] = @ + 1]
  /\ last' = RaceOp("resolve", race.rth, race.rimm)
  /\ UNCHANGED << then_fn, coro, queue, calls, steps, raised, nsoon, ntask, nvars >>

\* resolve: if self._then_fn
ResolveTest ==
  /\ race.rpc = "test"
  /\ race' = [race EXCEPT !.rpc = IF then_fn[RacePromise] # None THEN "fire" ELSE "done"]
  /\ last' = RaceOp("resolve", race.rth, race.rimm)
  /\ UNCHANGED << then_fn, result, coro, queue, calls, steps, nres, raised, nsoon, ntask,
                  nvars >>

\* resolve: self._then_fn(result) or call_soon(self._then_fn, result)
ResolveFire ==
  /\ race.rpc = "fire"
  /\ race' = [race EXCEPT !.rpc = "done"]
  /\ LET S == Heap(Frame("app", 0, FALSE))
         p == RacePromise
     IN Commit(IF race.rimm
               THEN Pop(Call(Push(S, Frame("resolve", p, TRUE)), race.rth, S.then_fn[p],
                             Some(race.rv)))
               ELSE CallSoon(S, race.rth, S.then_fn[p], Some(race.rv)),
               RaceOp("resolve", race.rth, race.rimm))
  /\ UNCHANGED << nsoon, ntask, nvars >>

\* The event loop delivers while the two threads run.
RaceDispatch ==
  /\ race # NoRace
  /\ Dispatch

NextRace ==
  \/ \E tth, rth \in Threads, timm, rimm \in BOOLEAN, v \in Val :
       RaceBegin(tth, rth, timm, rimm, v)
  \/ ThenAssert
  \/ ThenStore
  \/ ThenTest
  \/ ThenFire
  \/ ResolveAssert
  \/ ResolveStore
  \/ ResolveTest
  \/ ResolveFire
  \/ RaceDispatch

SpecRace == Init /\ [][NextRace]_vars

\* exec_(main_win, interactive_msg)
Exec(interactive_msg) ==
  /\ MainRuns
  /\ loop = "init"
  /\ loop' = "running"
  /\ interactive' = interactive_msg
  /\ last' = OpOn("exec_", QappThread)
  /\ UNCHANGED << race, then_fn, result, coro, queue, calls, steps, nres, raised, nsoon, ntask,
                  alive, tstate, handlers, stderr, shown, posted, exited >>

\* Qt reports a message on thread th: _qt_msg_hook runs there.
QtMessage(th, setGeometry) ==
  /\ exited = "no"
  /\ tstate[th] = "running"
  /\ stderr < MaxNotes
  /\ LET N == QtMsgHook(Bridge(queue), th, setGeometry) IN
     /\ CommitN(N)
     /\ queue' = N.queue
     /\ raised' = N.exc
  /\ last' = OpOn(IF setGeometry THEN "qt_geometry_warning" ELSE "qt_message", th)
  /\ UNCHANGED << race, then_fn, result, coro, calls, steps, nres, nsoon, ntask,
                  alive, interactive, loop, shown, exited >>

\* The event loop delivers a posted _show_message call: the slot starts on
\* qapp's thread and its message box opens (mbox.exec_()).
DeliverMessage ==
  /\ LoopRuns
  /\ queue # << >>
  /\ Head(queue).kind = "msg"
  /\ queue' = Tail(queue)
  /\ handlers' = Append(handlers, [for |-> Head(queue).from, on |-> QappThread,
                                   conn |-> "BlockingQueued"])
  /\ last' = OpOn("_show_message", Head(queue).from)
  /\ UNCHANGED << race, then_fn, result, coro, calls, steps, nres, raised, nsoon, ntask,
                  alive, interactive, loop, tstate, stderr, shown, posted, exited >>

\* The innermost message box is closed with Ignore: _show_message returns, and
\* a caller parked in invokeMethod goes on.
HandlerIgnore ==
  /\ exited = "no"
  /\ handlers # << >>
  /\ LET h == handlers[Len(handlers)] IN
     /\ handlers' = SubSeq(handlers, 1, Len(handlers) - 1)
     /\ shown' = [shown EXCEPT ![h.for] = @ + 1]
     /\ tstate' = IF h.conn = "BlockingQueued"
                  THEN [tstate EXCEPT ![h.for] = "running"] ELSE tstate
     /\ last' = OpOn("ignore", h.for)
  /\ UNCHANGED << race, then_fn, result, coro, queue, calls, steps, nres, raised, nsoon, ntask,
                  alive, interactive, loop, stderr, posted, exited >>

\* The innermost message box is closed with Abort: sys.exit(-1) inside
\* _show_message.
HandlerAbort ==
  /\ exited = "no"
  /\ handlers # << >>
  /\ exited' = "-1"
  /\ last' = OpOn("abort", handlers[Len(handlers)].for)
  /\ UNCHANGED << race, then_fn, result, coro, queue, calls, steps, nres, raised, nsoon, ntask,
                  alive, interactive, loop, tstate, handlers, stderr, shown, posted >>

\* qapp.exec_() returns.
Quit ==
  /\ LoopRuns
  /\ handlers = << >>
  /\ loop' = "stopped"
  /\ last' = OpOn("quit", QappThread)
  /\ UNCHANGED << race, then_fn, result, coro, queue, calls, steps, nres, raised, nsoon, ntask,
                  alive, interactive, tstate, handlers, stderr, shown, posted, exited >>

\* The interpreter shuts down and the module's globals are cleared: qapp is None.
Teardown ==
  /\ exited = "no"
  /\ loop = "stopped"
  /\ alive
  /\ alive' = FALSE
  /\ last' = OpOn("teardown", QappThread)
  /\ UNCHANGED << race, then_fn, result, coro, queue, calls, steps, nres, raised, nsoon, ntask,
                  interactive, loop, tstate, handlers, stderr, shown, posted, exited >>

\* The state when the module has been imported: qapp exists, the hooks are
\* installed, exec_() has not been called.
InitNotify ==
  /\ InitK
  /\ alive = TRUE
  /\ interactive = FALSE
  /\ loop = "init"
  /\ tstate = [th \in Threads |-> "running"]
  /\ handlers = << >>
  /\ stderr = 0
  /\ shown = [th \in Threads |-> 0]
  /\ posted = [th \in Threads |-> 0]
  /\ exited = "no"

NextNotify ==
  \/ \E im \in BOOLEAN : Exec(im)
  \/ \E th \in Threads, g \in BOOLEAN : QtMessage(th, g)
  \/ \E f \in SoonCbs : AppCallSoon(f)
  \/ Dispatch
  \/ DeliverMessage
  \/ HandlerIgnore
  \/ HandlerAbort
  \/ Quit
  \/ Teardown

SpecNotify == InitNotify /\ [][NextNotify]_vars

\* ------------------------------------------------------------ properties
CallEvent(fn, args) == [kind |-> "call", fn |-> fn, args |-> args, from |-> QappThread]
Count(seq, Test(_)) == Cardinality({ i \in 1..Len(seq) : Test(seq[i]) })

\* C1: a resolve() on a Promise that already holds a result ends in an
\* AssertionError, leaves _result and _then_fn as they were and neither calls
\* nor schedules anything.
C1_SecondResolveRejected ==
  [][ (last'.op = "resolve" /\ IsSet(result[last'.p]))
        => /\ raised' = "AssertionError"
           /\ result' = result
           /\ then_fn' = then_fn
           /\ queue' = queue
           /\ calls' = calls ]_vars

C1_Witness ==
  /\ last.op = "resolve"
  /\ raised = "AssertionError"
  /\ IsSet(result[last.p])
  /\ then_fn[last.p] # None

\* C2: a then() on a Promise that already has a continuation ends in an
\* AssertionError, resolved or not, leaves _then_fn and _result as they were
\* and neither calls nor schedules anything.
C2_SecondThenRejected ==
  [][ (last'.op = "then" /\ then_fn[last'.p] # None)
        => /\ raised' = "AssertionError"
           /\ then_fn' = then_fn
           /\ result' = result
           /\ queue' = queue
           /\ calls' = calls ]_vars

C2_Witness ==
  /\ last.op = "then"
  /\ raised = "AssertionError"
  /\ then_fn[last.p] # None
  /\ IsSet(result[last.p])

\* C3: once then(f) and resolve(v) have both been performed on a Promise, in
\* either order and with any flags, f has been called or is queued exactly once
\* in total, with argument v; with nothing queued any more it has been called
\* exactly once.  (f is told apart from the other Promise's continuation.)
Pending(f) == Count(queue, LAMBDA e : e.kind = "call" /\ e.fn = Cb(f))
Invoked(f) == Count(calls, LAMBDA c : c.f = f)
C3_FiresExactlyOnce ==
  \A p \in Promises :
    ( /\ then_fn[p] # None
      /\ IsSet(result[p])
      /\ \A q \in Promises \ {p} : then_fn[q] # then_fn[p] )
    => LET f == then_fn[p].id IN
       /\ Invoked(f) + Pending(f) = 1
       /\ \A i \in 1..Len(calls) : calls[i].f = f => calls[i].args = result[p]
       /\ \A i \in 1..Len(queue) : queue[i].fn = Cb(f) => queue[i].args = result[p]
       /\ (queue = << >> => Invoked(f) = 1)

C3_Witness ==
  \E p \in Promises :
    /\ then_fn[p] # None
    /\ IsSet(result[p])
    /\ \A q \in Promises \ {p} : then_fn[q] # then_fn[p]
    /\ queue = << >>
    /\ \E i \in 1..Len(calls) :
         calls[i].f = then_fn[p].id /\ calls[i].caller.op = "_invoke_function"

\* C4: the then()/resolve() call that brings continuation and result together
\* runs the continuation inside the call exactly when it passes
\* call_then_immediately=True; with the default it calls nothing and appends
\* the continuation to the event queue, and whatever ran outside such a call
\* was run by the event loop's dispatch.
C4_InlineOnlyOnRequest ==
  [][ /\ ( /\ last'.op \in {"then", "resolve"}
           /\ raised' = "none"
           /\ then_fn'[last'.p] # None
           /\ IsSet(result'[last'.p]) )
         => IF last'.imm
            THEN /\ queue' = queue
                 /\ calls' = Append(calls, [f |-> then_fn'[last'.p].id,
                                            args |-> result'[last'.p],
                                            caller |-> Frame(last'.op, last'.p, TRUE),
                                            thread |-> QappThread])
            ELSE /\ calls' = calls
                 /\ queue' = Append(queue, CallEvent(then_fn'[last'.p], result'[last'.p]))
      /\ \A i \in 1..Len(calls') :
           \/ calls'[i].caller.op = "_invoke_function"
           \/ calls'[i].caller.op \in {"then", "resolve"} /\ calls'[i].caller.imm ]_vars

C4_Witness ==
  /\ last.op = "dispatch"
  /\ \E i \in 1..Len(calls) :
       calls[i].f \in ThenCbs /\ calls[i].caller.op = "_invoke_function"
  /\ \E i \in 1..Len(calls) :
       calls[i].f \in ThenCbs /\ calls[i].caller.op = "resolve"

\* What the coroutine of Task t returns, read off its body and the results
\* of the objects it awaits.
ValOf(o) == IF IsSet(result[o]) THEN result[o][1] ELSE 0
Expected(t) ==
  LET P == coro[t].prog
      fin == P[Len(P)]
  IN CASE fin.op = "return_const" -> fin.a
       [] fin.op = "return_sum" ->
            SumSeq([i \in 1..Len(P) |-> IF P[i].op = "await" THEN ValOf(P[i].a) ELSE 0])
       [] fin.op = "return_r" -> [i \in 1..Len(coro[t].A1) |-> ValOf(coro[t].A1[i])]
NAwaits(P) == Cardinality({ i \in 1..Len(P) : P[i].op \in {"await", "await_a1"} })

\* C5: a Task whose coroutine has returned holds a result, assigned exactly
\* once, equal to the coroutine's return value, after any number of
\* suspensions and whether its first step ran inside Task() or from the queue.
C5_TaskResolvesWithReturnValue ==
  \A t \in Tasks :
    coro[t].st = "returned"
      => /\ IsSet(result[t])
         /\ nres[t] = 1
         /\ result[t][1] = Expected(t)
         /\ Len(steps[t]) = NAwaits(coro[t].prog) + 1

C5_Witness ==
  \E t \in Tasks :
    /\ coro[t].st = "returned"
    /\ NAwaits(coro[t].prog) = 2
    /\ coro[t].prog[Len(coro[t].prog)].op = "return_sum"
    /\ steps[t][1].caller = "__init__"
    /\ result[t] = Some(1 + MaxVal)

\* C6: the step in which a Task's coroutine raises ends with that exception
\* reaching whoever invoked the step (Task(), a resolve() that ran the step
\* inline, or the event loop, which hands it to sys.excepthook), and from then
\* on the Task has no result and its continuation is neither called nor queued.
C6_FaultPropagates ==
  [][ \A t \in Tasks :
        /\ (coro[t].st # "raised" /\ coro'[t].st = "raised")
             => /\ raised' = "Fault"
                /\ last'.op = "dispatch" => stderr' = stderr + 1
        /\ coro'[t].st = "raised"
             => /\ ~IsSet(result'[t])
                /\ nres'[t] = 0
                /\ \A i \in 1..Len(calls') : calls'[i].f # ContOf(t)
                /\ \A i \in 1..Len(queue') : queue'[i].fn # Cb(ContOf(t)) ]_vars

C6_Witness ==
  \E t \in Tasks :
    /\ coro[t].st = "raised"
    /\ Len(steps[t]) = 2
    /\ then_fn[t] = Cb(ContOf(t))
    /\ last.op = "dispatch"
    /\ raised = "none"

\* C7: when the Task driving resolve_all(A) has a result, it is a list as long
\* as A whose i-th entry is the result of A[i]: of the Promise itself, or of
\* the Task made for the coroutine A[i].
IsResolveAll(P) == Len(P) > 0 /\ P[Len(P)].op = "return_r"
BatchLen(P) == (Len(P) - 1) \div 2
C7_ResultsInInputOrder ==
  \A t \in Tasks :
    (IsResolveAll(coro[t].prog) /\ IsSet(result[t]))
      => LET P == coro[t].prog
             N == BatchLen(P)
             R == result[t][1]
         IN /\ Len(R) = N
            /\ Len(coro[t].A1) = N
            /\ \A i \in 1..N :
                 LET a == coro[t].A1[i] IN
                 /\ IF P[i].op = "keep" THEN a = P[i].a
                    ELSE a \in Tasks /\ coro[a].prog = P[i].prog
                 /\ IsSet(result[a])
                 /\ R[i] = result[a][1]

C7_Witness ==
  \E t \in Tasks :
    /\ IsResolveAll(coro[t].prog)
    /\ IsSet(result[t])
    /\ coro[t].prog[1].op = "keep"
    /\ result[t][1][1] # result[t][1][2]
    /\ Len(steps[coro[t].A1[2]]) = 2
    /\ nres[coro[t].A1[2]] = 1

\* C8: a _show_message call runs on qapp's thread only; while the call made
\* for a worker thread's notification is queued or running that worker is
\* parked, each parked worker having exactly one such call outstanding; and a
\* parked worker goes on only in the step in which its own _show_message call,
\* the innermost one, returns.
Outstanding(w) ==
  Count(queue, LAMBDA e : e.kind = "msg" /\ e.from = w)
    + Count(handlers, LAMBDA h : h.for = w)
HandOffInv ==
  /\ \A i \in 1..Len(handlers) : handlers[i].on = QappThread
  /\ \A w \in Workers :
       /\ Outstanding(w) = (IF tstate[w] = "blocked" THEN 1 ELSE 0)
       /\ posted[w] = shown[w] + Outstanding(w)
C8_CallerParkedWhileHandlerRuns ==
  [][ /\ HandOffInv'
      /\ \A w \in Workers :
           (tstate[w] = "blocked" /\ tstate'[w] # "blocked")
             => /\ handlers # << >>
                /\ handlers[Len(handlers)].for = w
                /\ handlers' = SubSeq(handlers, 1, Len(handlers) - 1)
                /\ shown'[w] = shown[w] + 1 ]_vars

C8_Witness ==
  \E w, x \in Workers :
    /\ w # x
    /\ shown[w] = 1
    /\ tstate[w] = "running"
    /\ tstate[x] = "blocked"
    /\ handlers # << >>
    /\ handlers[Len(handlers)] = [for |-> x, on |-> QappThread, conn |-> "BlockingQueued"]

\* C9: qapp's thread is never parked; a notification made on it is never
\* posted to the queue, and its _show_message call is a direct one that has
\* begun on that thread when _show_info_msg_box's step ends.
C9_LoopThreadNeverParked ==
  /\ tstate[QappThread] # "blocked"
  /\ \A i \in 1..Len(queue) : queue[i].kind = "msg" => queue[i].from # QappThread
  /\ \A i \in 1..Len(handlers) :
       handlers[i].for = QappThread
         => handlers[i].conn = "Direct" /\ handlers[i].on = QappThread
  /\ posted[QappThread] = shown[QappThread]
                            + Count(handlers, LAMBDA h : h.for = QappThread)

C9_Witness ==
  /\ Len(handlers) = 2
  /\ handlers[1].for \in Workers
  /\ handlers[2] = [for |-> QappThread, on |-> QappThread, conn |-> "Direct"]
  /\ last.op = "dispatch"

\* C10 as claimed: a notification made by a worker thread in non-interactive
\* mode, qapp existing, is handed to qapp's thread and parks the worker.
C10_HandOffWhenNotInteractive ==
  ( /\ last.op = "qt_message"
    /\ last.th \in Workers
    /\ alive
    /\ ~interactive )
  => /\ tstate[last.th] = "blocked"
     /\ Outstanding(last.th) = 1

\* C10 as amended: in non-interactive mode a notification writes its text to
\* stderr and does nothing else: no _show_message call is posted or begun and
\* no thread is parked.
C10_NoHandOffWhenNotInteractive ==
  [][ /\ (last'.op = "qt_message" /\ ~interactive)
           => /\ stderr' = stderr + 1
              /\ queue' = queue
              /\ handlers' = handlers
              /\ tstate' = tstate
              /\ posted' = posted
      /\ (last'.op = "dispatch" /\ raised' # "none" /\ ~interactive)
           => /\ stderr' = stderr + 1
              /\ queue' = Tail(queue)
              /\ handlers' = handlers
              /\ tstate' = tstate
              /\ posted' = posted ]_vars

C10_Witness ==
  /\ last.op = "qt_message"
  /\ last.th \in Workers
  /\ alive
  /\ ~interactive
  /\ loop = "running"
  /\ tstate[last.th] = "running"
  /\ stderr = 1

\* C11 as claimed: the process starts to terminate only when the _show_message
\* call of the aborting notification has returned and the notifying thread has
\* left invokeMethod; never while that call is still in progress.
C11_TerminationAfterUnwind ==
  [][ (exited = "no" /\ exited' # "no")
        => /\ \A i \in 1..Len(handlers') : handlers'[i].for # last'.th
           /\ tstate'[last'.th] = "running" ]_vars

\* The Abort button of a worker thread's message box: the process is exiting
\* while the slot is on the stack and the worker is parked.
C11_Witness ==
  /\ exited = "-1"
  /\ last.op = "abort"
  /\ last.th \in Workers
  /\ tstate[last.th] = "blocked"
  /\ handlers[Len(handlers)].for = last.th

\* C12: a call_soon call runs nothing and appends its callback to the queue;
\* from then on the callback is queued or has run, exactly once in total; it
\* runs in _invoke_function on qapp's thread; the callbacks scheduled on qapp's
\* thread run in the order of their call_soon calls; and, the event loop going
\* on, every queued callback is run.
C12_CallSoonExactlyOnceFifo ==
  /\ [][ /\ \A f \in SoonIds :
              IF last'.op = "call_soon" /\ last'.p = f
              THEN /\ calls' = calls
                   /\ queue' = Append(queue, [kind |-> "call", fn |-> Cb(f),
                                              args |-> << >>, from |-> last'.th])
                   /\ Invoked(f) + Pending(f) = 0
              ELSE Invoked(f)' + Pending(f)' = Invoked(f) + Pending(f)
         /\ \A i \in 1..Len(calls') :
              calls'[i].f \in SoonIds
                => /\ calls'[i].caller.op = "_invoke_function"
                   /\ calls'[i].thread = QappThread
         /\ \A i, j \in 1..Len(calls') :
              (i < j /\ SoonFromQapp(calls'[i].f) /\ SoonFromQapp(calls'[j].f))
                => SoonSerial(calls'[i].f) < SoonSerial(calls'[j].f) ]_vars
  /\ \A f \in SoonIds : (Pending(f) = 1) ~> (Invoked(f) = 1 /\ Pending(f) = 0)

C12_Witness ==
  /\ queue = << >>
  /\ nsoon = MaxSoon
  /\ last.op = "dispatch"
  /\ \E i, j, k \in 1..Len(calls) :
       /\ i < k /\ k < j
       /\ SoonFromQapp(calls[i].f) /\ SoonFromQapp(calls[j].f)
       /\ calls[k].f \in SoonIds /\ ~SoonFromQapp(calls[k].f)

\* C13: a notification made when qapp is None writes its text to stderr and
\* does nothing else: it ends without an exception, no _show_message call is
\* posted or begun, and no thread is parked, whatever interactive_msg was.
C13_NotifyAfterTeardownNoOp ==
  [][ (last'.op = "qt_message" /\ ~alive)
        => /\ raised' = "none"
           /\ queue' = queue
           /\ handlers' = handlers
           /\ tstate' = tstate
           /\ posted' = posted
           /\ shown' = shown
           /\ exited' = exited
           /\ stderr' = stderr + 1 ]_vars

C13_Witness ==
  /\ last.op = "qt_message"
  /\ last.th \in Workers
  /\ ~alive
  /\ interactive
  /\ raised = "none"
  /\ tstate[last.th] = "running"
  /\ posted[last.th] = 0

\* The object the i-th await of Task t's coroutine waits for.
AwaitedObj(t, i) ==
  IF IsResolveAll(coro[t].prog) THEN coro[t].A1[i]
  ELSE SelectSeq(coro[t].prog, LAMBDA ins : ins.op = "await")[i].a

\* C14: the i-th value a Task's coroutine has got from an await is the result
\* of the i-th object it awaited, which is resolved; the assertion in
\* Promise.__await__ never fails (a coroutine ends by an exception only at a
\* raise of its own); and the coroutine that awaits two Promises resolved with
\* 1 and 2 and returns the sum resolves its Task with 3.
C14_AwaitYieldsResolvedValue ==
  \A t \in Tasks :
    /\ coro[t].st = "raised" => coro[t].prog[coro[t].pc].op = "raise"
    /\ \A i \in 1..Len(coro[t].R) :
         /\ IsSet(result[AwaitedObj(t, i)])
         /\ coro[t].R[i] = result[AwaitedObj(t, i)][1]
    /\ ( /\ coro[t].prog = << IAwait(1), IAwait(NPromises), IReturnSum >>
         /\ coro[t].st = "returned"
         /\ result[1] = Some(1)
         /\ result[NPromises] = Some(2) )
       => result[t] = Some(3)

C14_Witness ==
  \E t \in Tasks :
    /\ coro[t].prog = << IAwait(1), IAwait(NPromises), IReturnSum >>
    /\ coro[t].st = "returned"
    /\ coro[t].R = << 1, 2 >>
    /\ result[t] = Some(3)
    /\ steps[t][2].caller = "_invoke_function"
    /\ steps[t][3].caller = "_invoke_function"

\* C15 as claimed: every step of a Task after its first is run by the event
\* loop's dispatch of a queued call.
C15_ResumedOnlyFromQueue ==
  \A t \in Tasks :
    \A i \in 2..Len(steps[t]) : steps[t][i].caller = "_invoke_function"

\* C15 as amended: an operation runs at most one step of a Task; a step after
\* the first is run inside resolve() exactly when that call resolves the
\* awaited Promise with call_then_immediately=True, and otherwise by the event
\* loop's dispatch of a queued call: never inside the step that registered the
\* continuation, the awaited Promise being resolved already or not.
C15_ResumedFromQueueUnlessImmediate ==
  [][ \A t \in Tasks :
        Len(steps'[t]) # Len(steps[t])
          => /\ Len(steps'[t]) = Len(steps[t]) + 1
             /\ Len(steps[t]) >= 1
                  => LET s == steps'[t][Len(steps'[t])] IN
                     IF last'.op = "resolve" /\ last'.imm /\ then_fn[last'.p] = WakeupOf(t)
                     THEN s.caller = "resolve"
                     ELSE s.caller = "_invoke_function" /\ last'.op = "dispatch" ]_vars

C15_Witness ==
  \E t \in Tasks :
    /\ Len(steps[t]) = 3
    /\ steps[t][2].caller = "resolve"
    /\ steps[t][3].caller = "_invoke_function"
    /\ coro[t].st = "returned"

\* C16 as claimed: however the statements of then(f) and resolve(v), called by
\* two threads on one Promise, interleave, f is called or queued at most once
\* at any time and exactly once when both methods have returned.
C16_RaceFiresExactlyOnce ==
  race # NoRace
    => /\ Invoked(1) + Pending(1) <= 1
       /\ (race.tpc = "done" /\ race.rpc = "done") => Invoked(1) + Pending(1) = 1

\* Both methods have stored their field before either tests the other's: each
\* finds the other's field set and each fires the continuation.
C16_Witness ==
  /\ race # NoRace
  /\ race.tpc = "done"
  /\ race.rpc = "done"
  /\ raised = "none"
  /\ Invoked(1) + Pending(1) = 2

\* Task t's coroutine has not raised, and where it is suspended the Task's
\* _wakeup is the continuation of what it yielded (the registration did not
\* fail, and what it yielded was a Promise).
NoFault(t) ==
  /\ coro[t].st # "raised"
  /\ coro[t].st = "suspended"
       => coro[t].awaiting # 0 /\ then_fn[coro[t].awaiting] = WakeupOf(t)

\* Task t exists and everything its coroutine awaits has a result.
AllAwaitedResolved(t) ==
  /\ coro[t].st # "none"
  /\ IF IsResolveAll(coro[t].prog)
     THEN /\ Len(coro[t].A1) = BatchLen(coro[t].prog)
          /\ \A i \in 1..Len(coro[t].A1) : IsSet(result[coro[t].A1[i]])
     ELSE \A i \in 1..Len(coro[t].prog) :
            coro[t].prog[i].op = "await" => IsSet(result[coro[t].prog[i].a])

C18_ContinuationOnQappThread ==
  race # NoRace
    => \A i \in 1..Len(calls) :
         LET c == calls[i] IN
         /\ c.caller.op = "then" => race.timm /\ c.caller.imm /\ c.thread = race.tth
         /\ c.caller.op = "resolve" => race.rimm /\ c.caller.imm /\ c.thread = race.rth
         /\ c.caller.op \notin {"then", "resolve"}
              => c.caller.op = "_invoke_function" /\ c.thread = QappThread
         /\ (~race.timm /\ ~race.rimm) => c.thread = QappThread

C18_Witness ==
  /\ race # NoRace
  /\ race.rth \in Workers
  /\ ~race.rimm
  /\ ~race.timm
  /\ race.tpc = "done"
  /\ race.rpc = "done"
  /\ queue = << >>
  /\ Len(calls) = 1
  /\ calls[1].thread = QappThread
  /\ last.op = "dispatch"

\* The queued first step of Task a (call_soon(self._wakeup), no argument).
FirstStepQueued(a) ==
  { k \in 1..Len(queue) : queue[k].fn = WakeupOf(a) /\ queue[k].args = << >> }
Started(a) == Len(steps[a]) >= 1

\* C19: once the Task driving resolve_all(A) has taken its first step, every
\* item of A is in A1, every coroutine of A is wrapped in a Task whose first
\* step has run or is queued (once), these first steps run and are queued in
\* the order of A, and with nothing queued all of them have run, whether the
\* earlier items have a result or not.
C19_FirstStepsInInputOrder ==
  \A r \in Tasks :
    (IsResolveAll(coro[r].prog) /\ Started(r))
      => LET P == coro[r].prog
             N == BatchLen(P)
             A1 == coro[r].A1
         IN /\ Len(A1) = N
            /\ \A i \in 1..N :
                 P[i].op = "create_task"
                   => /\ A1[i] \in Tasks
                      /\ coro[A1[i]].st # "none"
                      /\ coro[A1[i]].prog = P[i].prog
                      /\ Cardinality(FirstStepQueued(A1[i]))
                           = (IF Started(A1[i]) THEN 0 ELSE 1)
            /\ \A i, j \in 1..N :
                 (i < j /\ P[i].op = "create_task" /\ P[j].op = "create_task")
                   => /\ Started(A1[j]) => Started(A1[i])
                      /\ \A k \in FirstStepQueued(A1[i]), l \in FirstStepQueued(A1[j]) : k < l

\* The second coroutine has finished while the first is still waiting.
C19_Witness ==
  \E r \in Tasks :
    /\ IsResolveAll(coro[r].prog)
    /\ coro[r].st = "suspended"
    /\ BatchLen(coro[r].prog) = 2
    /\ coro[coro[r].A1[1]].st = "suspended"
    /\ ~IsSet(result[coro[r].A1[1]])
    /\ IsSet(result[coro[r].A1[2]])
    /\ queue = << >>

\* The steps of Task t that are to come: its _wakeup queued, or registered on
\* an object that has no result yet.
PendingSteps(t) ==
  Count(queue, LAMBDA e : e.kind = "call" /\ e.fn = WakeupOf(t))
    + Cardinality({ o \in Objs : then_fn[o] = WakeupOf(t) /\ ~IsSet(result[o]) })

\* C20: a Task has at most one step queued or registered at any time and an
\* operation runs at most one step of it; a Task that has a result has no
\* step queued or registered and takes no step any more.
C20_AtMostOnePendingStep ==
  [][ \A t \in Tasks :
        /\ PendingSteps(t)' <= 1
        /\ Len(steps'[t]) <= Len(steps[t]) + 1
        /\ IsSet(result'[t]) => PendingSteps(t)' = 0
        /\ IsSet(result[t]) => steps'[t] = steps[t] /\ result'[t] = result[t] ]_vars

\* A resolved Task whose continuation has run; the Promise it awaited still
\* names its _wakeup, which has been used up.
C20_Witness ==
  \E t \in Tasks :
    /\ IsSet(result[t])
    /\ Len(steps[t]) = 2
    /\ steps[t][1].caller = "__init__"
    /\ then_fn[1] = WakeupOf(t)
    /\ Invoked(ContOf(t)) = 1
    /\ queue = << >>

=============================================================================
